---- MODULE Spec2Model ----
(***************************************************************************)
(* HiPS tile metadata (hips/tiles/tile_meta.py) and the HEALPix boundary   *)
(* wrapper (hips/utils/healpix.py).                                        *)
(*                                                                         *)
(* Real numbers are fixed-point integers: an angle is a number of          *)
(* 1/AngleUnit radians, a vector component or a cosine a number of         *)
(* 1/AngleUnit.  The library routines the code calls (healpy.boundaries,   *)
(* healpy.vec2ang, healpy.order2nside, SkyCoord, SkyCoord.to_pixel,        *)
(* ProjectiveTransform.estimate) are modelled by the algorithm they run.   *)
(***************************************************************************)
EXTENDS Integers, Sequences, FiniteSets, TLC

VARIABLES self, args, op, inp, ret

vars == <<self, args, op, inp, ret>>

(***************************************************************************)
(* Bounds of the model.                                                    *)
(***************************************************************************)
MaxOrder == 3

MaxWidth == 2

(***************************************************************************)
(* Fixed-point arithmetic.                                                 *)
(***************************************************************************)
AngleUnit == 10 ^ 4

\* np.pi, in 1/AngleUnit radians
Pi == 31416

HalfPi == Pi \div 2

TwoPi == 2 * Pi

Abs(a) == IF a < 0 THEN -a ELSE a

\* a / b rounded to the nearest integer (b > 0)
RoundDiv(a, b) == IF a >= 0 THEN (2 * a + b) \div (2 * b) ELSE -((2 * (-a) + b) \div (2 * b))

RECURSIVE SqrtSearch(_, _, _)
SqrtSearch(n, lo, hi) ==
    IF hi - lo <= 1 THEN lo
    ELSE LET mid == (lo + hi) \div 2
         IN  IF mid * mid <= n THEN SqrtSearch(n, mid, hi) ELSE SqrtSearch(n, lo, mid)

\* floor(sqrt(n)) for 0 <= n < 2^30
ISqrt(n) == SqrtSearch(n, 0, 32768)

\* cos(a) for 0 <= a <= HalfPi, by its Taylor series
CosQ(a) ==
    LET a2 == (a * a) \div AngleUnit
        t1 == a2 \div 2
        t2 == (t1 * a2) \div (12 * AngleUnit)
        t3 == (t2 * a2) \div (30 * AngleUnit)
        t4 == (t3 * a2) \div (56 * AngleUnit)
    IN  AngleUnit - t1 + t2 - t3 + t4

\* sin(a) for 0 <= a <= HalfPi, by its Taylor series
SinQ(a) ==
    LET a2 == (a * a) \div AngleUnit
        t1 == (a * a2) \div (6 * AngleUnit)
        t2 == (t1 * a2) \div (20 * AngleUnit)
        t3 == (t2 * a2) \div (42 * AngleUnit)
        t4 == (t3 * a2) \div (72 * AngleUnit)
    IN  a - t1 + t2 - t3 + t4

\* cos(a) for 0 <= a <= TwoPi
Cos(a) ==
    IF a <= HalfPi THEN CosQ(a)
    ELSE IF a <= Pi THEN -CosQ(Pi - a)
    ELSE IF a <= Pi + HalfPi THEN -CosQ(a - Pi)
    ELSE CosQ(TwoPi - a)

\* sin(a) for 0 <= a <= TwoPi
Sin(a) ==
    IF a <= HalfPi THEN SinQ(a)
    ELSE IF a <= Pi THEN SinQ(Pi - a)
    ELSE IF a <= Pi + HalfPi THEN -SinQ(a - Pi)
    ELSE -SinQ(TwoPi - a)

RECURSIVE AcosSearch(_, _, _)
AcosSearch(c, lo, hi) ==
    IF hi - lo <= 1 THEN (IF Abs(Cos(hi) - c) < Abs(Cos(lo) - c) THEN hi ELSE lo)
    ELSE LET mid == (lo + hi) \div 2
         IN  IF Cos(mid) >= c THEN AcosSearch(c, mid, hi) ELSE AcosSearch(c, lo, mid)

\* np.arccos(c / AngleUnit), in [0, Pi]
Acos(c) ==
    IF c >= AngleUnit THEN 0
    ELSE IF c <= -AngleUnit THEN Pi
    ELSE AcosSearch(c, 0, Pi)

RECURSIVE AtanSearch(_, _, _, _)
AtanSearch(y, x, lo, hi) ==
    IF hi - lo <= 1
    THEN (IF Abs(x * Sin(hi) - y * Cos(hi)) < Abs(x * Sin(lo) - y * Cos(lo)) THEN hi ELSE lo)
    ELSE LET mid == (lo + hi) \div 2
         IN  IF x * Sin(mid) - y * Cos(mid) <= 0
             THEN AtanSearch(y, x, mid, hi) ELSE AtanSearch(y, x, lo, mid)

\* the angle of (x, y) from the angle b of (|x|, |y|)
Quadrant(y, x, b) ==
    IF x >= 0 /\ y >= 0 THEN b
    ELSE IF x < 0 /\ y >= 0 THEN Pi - b
    ELSE IF x < 0 THEN b - Pi
    ELSE -b

\* np.arctan2(y, x), in (-Pi, Pi]
Atan2(y, x) ==
    IF x = 0 /\ y = 0 THEN 0
    ELSE Quadrant(y, x, AtanSearch(Abs(y), Abs(x), 0, HalfPi))

(***************************************************************************)
(* numpy arrays: a 2-d array is a sequence of rows.                        *)
(***************************************************************************)
RECURSIVE Flatten(_)
\* the elements of a 2-d array in row-major (C) order
Flatten(m) == IF m = <<>> THEN <<>> ELSE Head(m) \o Flatten(Tail(m))

\* ndarray.reshape((rows, cols)): the same elements, row-major
Reshape(m, rows, cols) ==
    LET flat == Flatten(m)
    IN  [i \in 1..rows |-> [j \in 1..cols |-> flat[(i - 1) * cols + j]]]

\* np.transpose / ndarray.T of a 2-d array
Transpose(m) ==
    IF m = <<>> THEN <<>>
    ELSE [j \in 1..Len(m[1]) |-> [i \in 1..Len(m) |-> m[i][j]]]

\* the outcome of a call: a returned value, or an exception propagating out
Return(v) == [exc |-> "none", val |-> v]

Raise(kind) == [exc |-> kind]

IsRaise(r) == r.exc # "none"

(***************************************************************************)
(* healpy (HEALPix C++): pixel index -> face coordinates -> boundary.      *)
(***************************************************************************)
jrll == <<2, 2, 2, 2, 3, 3, 3, 3, 4, 4, 4, 4>>

jpll == <<1, 3, 5, 7, 0, 2, 4, 6, 1, 3, 5, 7>>

RECURSIVE ShiftLeft(_, _)
\* v << k
ShiftLeft(v, k) == IF k <= 0 THEN v ELSE ShiftLeft(2 * v, k - 1)

\* order2nside that doubles the order instead of shifting by it
order2nsideDoubled(order) == 2 * order

\* hp.order2nside(order): 1 << order
order2nside(order) == ShiftLeft(1, order)

\* hp.nside2npix(nside)
nside2npix(n) == 12 * n * n

RECURSIVE IsPowerOfTwo(_)
IsPowerOfTwo(n) == n = 1 \/ (n > 1 /\ n % 2 = 0 /\ IsPowerOfTwo(n \div 2))

\* hp.isnsideok(nside, nest=True)
isnsideok(n) == n > 0 /\ IsPowerOfTwo(n)

RECURSIVE CompressBits(_)
\* the even-numbered bits of v, packed
CompressBits(v) == IF v = 0 THEN 0 ELSE (v % 2) + 2 * CompressBits(v \div 4)

\* special_div(a, b): a div b for 0 <= a < 4b
SpecialDiv(a, b) ==
    LET t  == IF a >= 2 * b THEN 1 ELSE 0
        a1 == a - t * 2 * b
    IN  2 * t + (IF a1 >= b THEN 1 ELSE 0)

\* T_Healpix_Base::nest2xyf
nest2xyf(n, pix) ==
    LET npface == n * n
        inface == pix % npface
    IN  [ix |-> CompressBits(inface), iy |-> CompressBits(inface \div 2),
         face |-> pix \div npface]

\* ring2xyf, first part: the ring of the pixel (iring, counted from the north
\* pole), its place in the ring (iphi), the ring's shift and length, the face
RingLoc(n, pix) ==
    IF pix < 2 * n * (n - 1)
    THEN LET ir == (1 + ISqrt(1 + 2 * pix)) \div 2
             ip == (pix + 1) - 2 * ir * (ir - 1)
         IN  [iring |-> ir, iphi |-> ip, kshift |-> 0, nr |-> ir,
              face |-> SpecialDiv(ip - 1, ir)]
    ELSE IF pix < nside2npix(n) - 2 * n * (n - 1)
    THEN LET ip  == pix - 2 * n * (n - 1)
             tmp == ip \div (4 * n)
             iph == ip - tmp * 4 * n + 1
             ire == tmp + 1
             irm == 2 * n + 1 - tmp
             ifm == (iph - (ire \div 2) + n - 1) \div n
             ifp == (iph - (irm \div 2) + n - 1) \div n
         IN  [iring |-> tmp + n, iphi |-> iph, kshift |-> (tmp + n + n) % 2, nr |-> n,
              face |-> IF ifp = ifm THEN 4 + (ifp % 4)
                       ELSE IF ifp < ifm THEN ifp ELSE ifm + 8]
    ELSE LET ip == nside2npix(n) - pix
             ir == (1 + ISqrt(2 * ip - 1)) \div 2
             iph == 4 * ir + 1 - (ip - 2 * ir * (ir - 1))
         IN  [iring |-> 4 * n - ir, iphi |-> iph, kshift |-> 0, nr |-> ir,
              face |-> SpecialDiv(iph - 1, ir) + 8]

\* ring2xyf, second part: the pixel's coordinates within its face
RingXyf(n, loc) ==
    LET irt  == loc.iring - jrll[loc.face + 1] * n + 1
        ipt0 == 2 * loc.iphi - jpll[loc.face + 1] * loc.nr - loc.kshift - 1
        ipt  == IF ipt0 >= 2 * n THEN ipt0 - 8 * n ELSE ipt0
    IN  [ix |-> (ipt - irt) \div 2, iy |-> (-ipt - irt) \div 2, face |-> loc.face]

\* T_Healpix_Base::ring2xyf
ring2xyf(n, pix) == RingXyf(n, RingLoc(n, pix))

\* T_Healpix_Base::xyf2loc at the grid point (x, y) = (gx / n, gy / n) of a face:
\* z = cos(colatitude) and the longitude phi
xyf2loc(n, gx, gy, face) ==
    LET j  == jrll[face + 1] * n - gx - gy
        nr == IF j < n THEN j ELSE IF j > 3 * n THEN 4 * n - j ELSE n
        z  == IF j < n THEN AngleUnit - RoundDiv(AngleUnit * j * j, 3 * n * n)
              ELSE IF j > 3 * n THEN RoundDiv(AngleUnit * nr * nr, 3 * n * n) - AngleUnit
              ELSE RoundDiv(2 * AngleUnit * (2 * n - j), 3 * n)
        t0 == jpll[face + 1] * nr + gx - gy
        t  == IF t0 < 0 THEN t0 + 8 * n ELSE IF t0 >= 8 * n THEN t0 - 8 * n ELSE t0
    IN  [z |-> z, phi |-> IF nr = 0 THEN 0 ELSE RoundDiv(Pi * t, 4 * nr)]

\* locToVec3: the unit vector of (z, phi), with sth = sin(colatitude)
Vec3(sth, z, phi) ==
    <<RoundDiv(sth * Cos(phi), AngleUnit), RoundDiv(sth * Sin(phi), AngleUnit), z>>

locToVec3(loc) == Vec3(ISqrt((AngleUnit - loc.z) * (AngleUnit + loc.z)), loc.z, loc.phi)

\* T_Healpix_Base::boundaries(pix, step=1): the corners N, W, S, E of the pixel
\* with face coordinates f, one unit vector each
PixelCorners(n, f) ==
    << locToVec3(xyf2loc(n, f.ix + 1, f.iy + 1, f.face)),
       locToVec3(xyf2loc(n, f.ix, f.iy + 1, f.face)),
       locToVec3(xyf2loc(n, f.ix, f.iy, f.face)),
       locToVec3(xyf2loc(n, f.ix + 1, f.iy, f.face)) >>

\* healpy.boundaries(nside, pix, step=1, nest): the corners as an array of
\* shape (3, 4), row k holding component k of every corner
healpy_boundaries(n, pix, nest) ==
    IF ~isnsideok(n) THEN Raise("ValueError")
    ELSE IF pix < 0 \/ pix >= nside2npix(n) THEN Raise("ValueError")
    ELSE Return(Transpose(PixelCorners(n, IF nest THEN nest2xyf(n, pix) ELSE ring2xyf(n, pix))))

\* phi[phi < 0] += 2 * np.pi
WrapTwoPi(a) == IF a < 0 THEN a + TwoPi ELSE a

\* the angles (theta, phi) of one vector of norm dnorm
Ang(v, dnorm) == <<Acos(RoundDiv(v[3] * AngleUnit, dnorm)), WrapTwoPi(Atan2(v[2], v[1]))>>

\* the angles of the rows of an array of shape (N, 3)
RowAngles(vec) ==
    Transpose([i \in 1..Len(vec) |-> Ang(vec[i], ISqrt(vec[i][1] * vec[i][1] + vec[i][2] * vec[i][2] + vec[i][3] * vec[i][3]))])

\* healpy.vec2ang(vectors): vectors.reshape(-1, 3), then (theta, phi)
vec2ang(vectors) == RowAngles(Reshape(vectors, Len(Flatten(vectors)) \div 3, 3))

(***************************************************************************)
(* hips/utils/healpix.py                                                   *)
(***************************************************************************)
\* the last two lines of boundaries: transpose, convert, return
Angles(boundary_coords) ==
    IF IsRaise(boundary_coords) THEN boundary_coords
    ELSE Return(vec2ang(Transpose(boundary_coords.val)))

\* boundaries that drops its nest argument
boundariesRingOnly(n, pix, nest) == Angles(healpy_boundaries(n, pix, FALSE))

\* boundaries(nside, pix, nest=False)
boundaries(n, pix, nest) == Angles(healpy_boundaries(n, pix, nest))

(***************************************************************************)
(* Python strings and paths.                                               *)
(***************************************************************************)
Digit(d) == <<"0", "1", "2", "3", "4", "5", "6", "7", "8", "9">>[d + 1]

RECURSIVE str(_)
\* str(n) of an int: its decimal digits
str(n) ==
    IF n < 0 THEN "-" \o str(-n)
    ELSE IF n < 10 THEN Digit(n)
    ELSE str(n \div 10) \o Digit(n % 10)

RECURSIVE Join(_)
\* ''.join(parts)
Join(parts) == IF parts = <<>> THEN "" ELSE Head(parts) \o Join(Tail(parts))

\* pathlib: a relative path is the sequence of its parts; p / name
PathDiv(p, name) == Append(p, name)

(***************************************************************************)
(* astropy: SkyCoord, and SkyCoord.to_pixel for a WCS given in the frame   *)
(* of the coordinates (no frame conversion takes place).                   *)
(***************************************************************************)
\* SkyCoord(<lon_name>=lon, <lat_name>=lat, unit=unit, frame=frame)
SkyCoord(lon_name, lon, lat_name, lat, unit, frame) ==
    [frame |-> frame, unit |-> unit, names |-> <<lon_name, lat_name>>, lon |-> lon, lat |-> lat]

\* an angle difference brought into (-Pi, Pi]
WrapPi(a) == IF a > Pi THEN a - TwoPi ELSE IF a <= -Pi THEN a + TwoPi ELSE a

\* SkyCoord.to_pixel(wcs): plate carree about crval with cdelt radians per
\* pixel, then the inverse SIP term of the first axis (x = u + ap10 * u), then
\* crpix; the pixel coordinates are kept to whole pixels
to_pixel(coords, wcs) ==
    LET u(i) == RoundDiv(WrapPi(coords.lon[i] - wcs.crval[1]), wcs.cdelt)
        v(i) == RoundDiv(coords.lat[i] - wcs.crval[2], wcs.cdelt)
    IN  <<[i \in 1..Len(coords.lon) |-> wcs.crpix[1] + u(i) + wcs.ap10 * u(i)],
          [i \in 1..Len(coords.lat) |-> wcs.crpix[2] + v(i)]>>

(***************************************************************************)
(* skimage.transform.ProjectiveTransform                                   *)
(***************************************************************************)
\* tf.ProjectiveTransform(): the identity matrix
ProjectiveTransform == [params |-> [kind |-> "identity"]]

\* twice the signed area of the triangle p, q, r
Det3(p, q, r) == p[1] * (q[2] - r[2]) + q[1] * (r[2] - p[2]) + r[1] * (p[2] - q[2])

\* four points of which some three lie on one line (or coincide)
Degenerate(pts) ==
    \E i, j, k \in 1..4 : i < j /\ j < k /\ Det3(pts[i], pts[j], pts[k]) = 0

\* pt.estimate(src, dst): the transform after the call and the flag returned.
\* Four correspondences in general position are fitted exactly: params is the
\* homography through them.  Otherwise the fit has no unique solution: a
\* legacy release leaves a finite matrix of the null space in params and
\* returns True, a current release sets params to NaN and returns False.
estimate(pt, src, dst, release) ==
    IF ~Degenerate(src) /\ ~Degenerate(dst)
    THEN [pt |-> [params |-> [kind |-> "homography",
                              through |-> [i \in 1..4 |-> <<src[i], dst[i]>>]]],
          success |-> TRUE]
    ELSE IF release = "legacy"
    THEN [pt |-> [params |-> [kind |-> "finite", through |-> <<>>]], success |-> TRUE]
    ELSE [pt |-> [params |-> [kind |-> "nan", through |-> <<>>]], success |-> FALSE]

\* pt(p) for a source point p of the fit
Apply(pt, p) ==
    LET hit == {i \in DOMAIN pt.params.through : pt.params.through[i][1] = p}
    IN  IF hit = {} THEN <<>> ELSE pt.params.through[CHOOSE i \in hit : TRUE][2]

(***************************************************************************)
(* hips/tiles/tile_meta.py: class HipsTileMeta                             *)
(***************************************************************************)
\* __init__ that ignores its frame argument
HipsTileMetaDefaultFrame(order, ipix, file_format, frame, tile_width) ==
    [order |-> order, ipix |-> ipix, file_format |-> file_format,
     frame |-> "galactic", tile_width |-> tile_width]

\* __init__(order, ipix, file_format, frame, tile_width)
HipsTileMeta(order, ipix, file_format, frame, tile_width) ==
    [order |-> order, ipix |-> ipix, file_format |-> file_format,
     frame |-> frame, tile_width |-> tile_width]

\* __eq__ that compares the frame too
eqWithFrame(t, other) ==
    /\ t.order = other.order
    /\ t.ipix = other.ipix
    /\ t.file_format = other.file_format
    /\ t.frame = other.frame
    /\ t.tile_width = other.tile_width

\* __eq__(self, other)
eq(t, other) ==
    /\ t.order = other.order
    /\ t.ipix = other.ipix
    /\ t.file_format = other.file_format
    /\ t.tile_width = other.tile_width

\* path
path(t) == <<"hips", "tiles", "tests", "data">>

\* filename built from the order instead of the pixel number
filenameByOrder(t) == Join(<<"Npix", str(t.order), ".", t.file_format>>)

\* filename
filename(t) == Join(<<"Npix", str(t.ipix), ".", t.file_format>>)

\* full_path
full_path(t) == PathDiv(path(t), filename(t))

\* nside
nside(t) == order2nside(t.order)

\* dst with the corners listed from the origin
dstFromOrigin(t) ==
    << <<0, 0>>,
       <<t.tile_width - 1, 0>>,
       <<t.tile_width - 1, t.tile_width - 1>>,
       <<0, t.tile_width - 1>> >>

\* dst
dst(t) ==
    << <<t.tile_width - 1, 0>>,
       <<t.tile_width - 1, t.tile_width - 1>>,
       <<0, t.tile_width - 1>>,
       <<0, 0>> >>

\* the default of the nest parameter of boundaries
NestDefault == FALSE

\* CornersFrom that passes the colatitude theta on as the latitude
CornersFromColatitude(t, b) ==
    IF IsRaise(b) THEN b
    ELSE IF t.frame = "galactic"
    THEN Return(SkyCoord("l", b.val[2], "b", b.val[1], "radian", t.frame))
    ELSE Return(SkyCoord("ra", b.val[2], "dec", b.val[1], "radian", t.frame))

\* skycoord_corners, from the (theta, phi) that boundaries returned
CornersFrom(t, b) ==
    IF IsRaise(b) THEN b
    ELSE IF t.frame = "galactic"
    THEN Return(SkyCoord("l", b.val[2], "b", [i \in 1..Len(b.val[1]) |-> HalfPi - b.val[1][i]],
                         "radian", t.frame))
    ELSE Return(SkyCoord("ra", b.val[2], "dec", [i \in 1..Len(b.val[1]) |-> HalfPi - b.val[1][i]],
                         "radian", t.frame))

\* skycoord_corners
skycoord_corners(t) == CornersFrom(t, boundaries(nside(t), t.ipix, NestDefault))

\* src without the transpose: np.array(corners).reshape((4, 2))
SrcOfNoTranspose(corners) == Reshape(corners, 4, 2)

\* src = np.array(corners).T.reshape((4, 2))
SrcOf(corners) == Reshape(Transpose(corners), 4, 2)

\* apply_projection, from the corners that skycoord_corners returned
ProjectionFrom(t, sc, wcs, release) ==
    IF IsRaise(sc) THEN sc
    ELSE Return(estimate(ProjectiveTransform, SrcOf(to_pixel(sc.val, wcs)), dst(t), release).pt)

\* apply_projection(wcs), with the skimage release in use
apply_projection(t, wcs, release) == ProjectionFrom(t, skycoord_corners(t), wcs, release)

(***************************************************************************)
(* Inputs.                                                                 *)
(***************************************************************************)
Orders == 0..MaxOrder

IpixSet == {0, 5, 450}

Formats == {"fits", "jpg", "png"}

Frames == {"icrs", "galactic", "ecliptic"}

Widths == (1..MaxWidth) \cup {512}

ArgSet == [order : Orders, ipix : IpixSet, file_format : Formats,
           frame : Frames, tile_width : Widths]

Construct(a) == HipsTileMeta(a.order, a.ipix, a.file_format, a.frame, a.tile_width)

Tiles == {Construct(a) : a \in ArgSet}

\* the instances a tile is compared with
Others ==
    {Construct(a) : a \in [order : {0, MaxOrder}, ipix : {0, 450}, file_format : {"fits", "png"},
                           frame : {"galactic", "icrs"}, tile_width : {1, 512}]}

\* target images: an all-sky grid, a finer grid about (pi, -0.5 rad), and a
\* grid whose inverse SIP term cancels the first axis
WcsSet ==
    { [crval |-> <<0, 0>>, cdelt |-> 100, crpix |-> <<0, 0>>, ap10 |-> 0],
      [crval |-> <<Pi, -5000>>, cdelt |-> 25, crpix |-> <<512, 256>>, ap10 |-> 0],
      [crval |-> <<0, 0>>, cdelt |-> 100, crpix |-> <<0, 0>>, ap10 |-> -1] }

Releases == {"legacy", "current"}

NoInput == [kind |-> "none"]

\* skycoord_corners and apply_projection of every tile, tabulated: both are
\* functions of the tile (and the call's arguments) alone
SkycoordCornersTable == [t \in Tiles |-> skycoord_corners(t)]

ApplyProjectionTable ==
    [t \in Tiles, wcs \in WcsSet, release \in Releases |-> apply_projection(t, wcs, release)]

(***************************************************************************)
(* The tile object: construction, then any sequence of calls.              *)
(***************************************************************************)
Init ==
    /\ args \in ArgSet
    /\ self = Construct(args)
    /\ op = "init"
    /\ inp = NoInput
    /\ ret = Return("None")

Eq ==
    \E other \in Others :
        /\ op' = "eq"
        /\ inp' = [kind |-> "other", other |-> other]
        /\ ret' = Return(eq(self, other))
        /\ UNCHANGED <<self, args>>

Path ==
    /\ op' = "path"
    /\ inp' = NoInput
    /\ ret' = Return(path(self))
    /\ UNCHANGED <<self, args>>

Filename ==
    /\ op' = "filename"
    /\ inp' = NoInput
    /\ ret' = Return(filename(self))
    /\ UNCHANGED <<self, args>>

FullPath ==
    /\ op' = "full_path"
    /\ inp' = NoInput
    /\ ret' = Return(full_path(self))
    /\ UNCHANGED <<self, args>>

Nside ==
    /\ op' = "nside"
    /\ inp' = NoInput
    /\ ret' = Return(nside(self))
    /\ UNCHANGED <<self, args>>

Dst ==
    /\ op' = "dst"
    /\ inp' = NoInput
    /\ ret' = Return(dst(self))
    /\ UNCHANGED <<self, args>>

SkycoordCorners ==
    /\ op' = "skycoord_corners"
    /\ inp' = NoInput
    /\ ret' = SkycoordCornersTable[self]
    /\ UNCHANGED <<self, args>>

ApplyProjection ==
    \E wcs \in WcsSet, release \in Releases :
        /\ op' = "apply_projection"
        /\ inp' = [kind |-> "wcs", wcs |-> wcs, release |-> release]
        /\ ret' = ApplyProjectionTable[self, wcs, release]
        /\ UNCHANGED <<self, args>>

Next ==
    \/ Eq
    \/ Path
    \/ Filename
    \/ FullPath
    \/ Nside
    \/ Dst
    \/ SkycoordCorners
    \/ ApplyProjection

Spec == Init /\ [][Next]_vars

(***************************************************************************)
(* The function boundaries on its own: the arguments, then the call.       *)
(***************************************************************************)
Nsides == {order2nside(o) : o \in Orders}

\* one more than the largest valid pixel index of the largest nside
PixMax == nside2npix(order2nside(MaxOrder))

BoundariesInputs == [kind : {"boundaries"}, nside : Nsides, pix : 0..PixMax,
                     nest : {"True", "False", "omitted"}]

\* the value of the nest parameter for a call
NestOf(i) == IF i.nest = "omitted" THEN NestDefault ELSE i.nest = "True"

BInit ==
    /\ args = NoInput
    /\ self = NoInput
    /\ op = "init"
    /\ inp \in BoundariesInputs
    /\ ret = Return("None")

Boundaries ==
    /\ op = "init"
    /\ op' = "boundaries"
    /\ ret' = boundaries(inp.nside, inp.pix, NestOf(inp))
    /\ UNCHANGED <<self, args, inp>>

BNext == Boundaries

SpecBoundaries == BInit /\ [][BNext]_vars

(***************************************************************************)
(* Properties.                                                             *)
(***************************************************************************)
EqFields == {"order", "ipix", "file_format", "tile_width"}

\* C1: a == b is true exactly when order, ipix, file_format and tile_width
\* agree; the frame of either instance never changes the result.
C1_EqIgnoresFrame ==
    op = "eq" =>
        /\ ret.val = (\A f \in EqFields : self[f] = inp.other[f])
        /\ \A g \in Frames : eq([self EXCEPT !.frame = g], inp.other) = ret.val
        /\ \A g \in Frames : eq(self, [inp.other EXCEPT !.frame = g]) = ret.val

C1_Witness == op = "eq" /\ ret.val = TRUE /\ self.frame # inp.other.frame

\* an angle in hundredths of a degree
CentiDeg(a) == RoundDiv(a * 18000, Pi)

\* the corners (l, b) of the class docstring, in hundredths of a degree
DocLon == <<26438, 25875, 26438, 27000>>

DocLat == <<-2462, -3000, -3569, -3000>>

NearDoc(lon, lat) ==
    /\ Len(lon) = 4
    /\ Len(lat) = 4
    /\ \A i \in 1..4 : Abs(CentiDeg(lon[i]) - DocLon[i]) <= 5
    /\ \A i \in 1..4 : Abs(CentiDeg(lat[i]) - DocLat[i]) <= 5

\* C2: for order 3, ipix 450, frame galactic, tile_width 512, skycoord_corners
\* is the four galactic corners of the docstring, in its order.
C2_DocstringCorners ==
    (/\ op = "skycoord_corners"
     /\ self.order = 3
     /\ self.ipix = 450
     /\ self.frame = "galactic"
     /\ self.tile_width = 512) =>
        /\ ~IsRaise(ret)
        /\ ret.val.names = <<"l", "b">>
        /\ NearDoc(ret.val.lon, ret.val.lat)

\* The docstring's corners are those of pixel 450 in NESTED ordering.
DocstringIsNested ==
    (op = "boundaries" /\ inp.nside = 8 /\ inp.pix = 450 /\ inp.nest = "True") =>
        NearDoc(ret.val[2], [i \in 1..4 |-> HalfPi - ret.val[1][i]])

\* the i-th projected corner, x from the first array and y from the second
ProjectedCorner(corners, i) == <<corners[1][i], corners[2][i]>>

ProjectedCorners(corners) == [i \in 1..4 |-> ProjectedCorner(corners, i)]

C3Holds(t, r, corners) ==
    (~Degenerate(ProjectedCorners(corners)) /\ ~Degenerate(dst(t))) =>
        \A i \in 1..4 : Apply(r.val, ProjectedCorner(corners, i)) = dst(t)[i]

\* C3: when the four projected corners and dst are in general position, the
\* returned transform takes the i-th projected corner (x_i, y_i) to dst[i].
C3_CornerPairing ==
    (op = "apply_projection" /\ ~IsRaise(ret)) =>
        C3Holds(self, ret, to_pixel(SkycoordCornersTable[self].val, inp.wcs))

C3_Witness ==
    /\ op = "apply_projection"
    /\ ~IsRaise(ret)
    /\ ret.val.params.kind = "homography"
    /\ self.tile_width = 512
    /\ \A i \in 1..4 : ret.val.params.through[i][1][1] # ret.val.params.through[i][1][2]

C4Holds(t, r, corners) ==
    Degenerate(ProjectedCorners(corners)) => r.val.params.kind = "nan"

\* C4: when the projected corners are degenerate, apply_projection raises or
\* returns a transform flagged invalid (NaN parameters).
C4_DegenerateIsFlagged ==
    (op = "apply_projection" /\ ~IsRaise(ret)) =>
        C4Holds(self, ret, to_pixel(SkycoordCornersTable[self].val, inp.wcs))

C5Holds(t, r, b) ==
    IF IsRaise(b) THEN r = b
    ELSE /\ ~IsRaise(r)
         /\ r.val.frame = t.frame
         /\ r.val.unit = "radian"
         /\ Len(r.val.lon) = 4
         /\ Len(r.val.lat) = 4
         /\ \A i \in 1..4 : r.val.lon[i] = b.val[2][i]
         /\ \A i \in 1..4 : r.val.lat[i] + b.val[1][i] = HalfPi
         /\ (r.val.names = <<"l", "b">>) <=> (t.frame = "galactic")
         /\ (r.val.names = <<"ra", "dec">>) <=> (t.frame # "galactic")

IsAngleOf(theta, phi, v) ==
    /\ Abs(RoundDiv(Sin(theta) * Cos(phi), AngleUnit) - v[1]) <= 50
    /\ Abs(RoundDiv(Sin(theta) * Sin(phi), AngleUnit) - v[2]) <= 50
    /\ Abs(Cos(theta) - v[3]) <= 50

C6Holds(r, bc) ==
    IF IsRaise(bc) THEN r = bc
    ELSE /\ ~IsRaise(r)
         /\ Len(r.val) = 2
         /\ Len(r.val[1]) = 4
         /\ Len(r.val[2]) = 4
         /\ \A k \in 1..4 : r.val[1][k] >= 0 /\ r.val[1][k] <= Pi
         /\ \A k \in 1..4 : r.val[2][k] >= 0 /\ r.val[2][k] < TwoPi
         /\ \A k \in 1..4 :
               IsAngleOf(r.val[1][k], r.val[2][k], <<bc.val[1][k], bc.val[2][k], bc.val[3][k]>>)

\* C6: boundaries returns theta and phi of 4 entries each, entry i the angles
\* of the i-th corner vector of the library, theta in [0, pi], phi in
\* [0, 2 pi); the pixel is read as NESTED when nest is true, as RING when nest
\* is false or omitted.
C6_BoundariesAngles ==
    op = "boundaries" => C6Holds(ret, healpy_boundaries(inp.nside, inp.pix, inp.nest = "True"))

C6_Witness ==
    /\ op = "boundaries"
    /\ ~IsRaise(ret)
    /\ inp.nest = "True"
    /\ inp.nside = 8
    /\ inp.pix = 450
    /\ ret.val[1][1] < ret.val[1][3]

\* C7: dst is (w-1, 0), (w-1, w-1), (0, w-1), (0, 0) in this order; every
\* coordinate lies in [0, w-1]; the rows are pairwise distinct when w >= 2.
C7_DstQuad ==
    op = "dst" =>
        /\ Len(ret.val) = 4
        /\ \A i \in 1..4 : Len(ret.val[i]) = 2
        /\ ret.val[1] = <<self.tile_width - 1, 0>>
        /\ ret.val[2] = <<self.tile_width - 1, self.tile_width - 1>>
        /\ ret.val[3] = <<0, self.tile_width - 1>>
        /\ ret.val[4] = <<0, 0>>
        /\ self.tile_width = 512 =>
              ret.val = << <<511, 0>>, <<511, 511>>, <<0, 511>>, <<0, 0>> >>
        /\ \A i \in 1..4, j \in 1..2 : ret.val[i][j] \in 0..(self.tile_width - 1)
        /\ self.tile_width >= 2 => \A i, j \in 1..4 : i # j => ret.val[i] # ret.val[j]

C7_Witness == op = "dst" /\ self.tile_width = 512 /\ ret.val[2] = <<511, 511>>

\* C8: nside is exactly 2^order, so the pixel indices the tile may carry are
\* those of [0, 12 * 4^order): skycoord_corners raises for any other.
C8_NsidePowerOfTwo ==
    /\ op = "nside" => ret.val = 2 ^ self.order
    /\ op = "nside" => nside2npix(ret.val) = 12 * 4 ^ self.order
    /\ op = "skycoord_corners" =>
          (IsRaise(ret) <=> ~(self.ipix >= 0 /\ self.ipix < 12 * 4 ^ self.order))

C8_Witness == op = "nside" /\ self.order = 3 /\ ret.val = 8

\* the decimal numerals of the pixel numbers of IpixSet
Decimal == (0 :> "0") @@ (5 :> "5") @@ (450 :> "450")

\* C9: filename is "Npix" + decimal(ipix) + "." + file_format, path is
\* hips/tiles/tests/data for every instance, full_path is path / filename; a
\* tile with the same ipix and file_format has the same full_path.
C9_FilenameAndPath ==
    /\ op = "filename" => ret.val = "Npix" \o Decimal[self.ipix] \o "." \o self.file_format
    /\ (op = "filename" /\ self.ipix = 450 /\ self.file_format = "fits") => ret.val = "Npix450.fits"
    /\ op = "path" => ret.val = <<"hips", "tiles", "tests", "data">>
    /\ op = "full_path" =>
          /\ ret.val = <<"hips", "tiles", "tests", "data",
                         "Npix" \o Decimal[self.ipix] \o "." \o self.file_format>>
          /\ \A t \in Tiles :
                (t.ipix = self.ipix /\ t.file_format = self.file_format) => full_path(t) = ret.val

C9_Witness ==
    /\ op = "full_path"
    /\ self.ipix = 450
    /\ self.file_format = "fits"
    /\ self.order = 0
    /\ ret.val[5] = "Npix450.fits"

\* C10: the constructor stores its five arguments as given, valid or not; no
\* call changes a field or adds one; a call repeated with the same input
\* returns the same value.
C10_ValueObject ==
    /\ [](self = args /\ DOMAIN self = {"order", "ipix", "file_format", "frame", "tile_width"})
    /\ [][self' = self]_vars
    /\ [][(op' = op /\ inp' = inp) => ret' = ret]_vars

C10_Witness ==
    /\ op = "skycoord_corners"
    /\ IsRaise(ret)
    /\ self.ipix >= nside2npix(nside(self))
    /\ self.frame = "icrs"
    /\ self = args

====
